---- MODULE Spec2Model ----
(***************************************************************************)
(* A model of rite-emu, a CHIP-8 emulator: the machine of src/emu.rs (Emu) *)
(* and the ggez host driver of src/main.rs (MainState) that loads a ROM    *)
(* and runs 11 instructions per 60 Hz tick.                                *)
(*                                                                         *)
(* An Emu is a record with the fields of the Rust struct.  A function that *)
(* returns Result<(), EmulationError> is an operator that yields           *)
(* [emu |-> the machine afterwards, res |-> "Ok" or the error's name]; a   *)
(* Rust panic (an index out of range) is the result "Panic", with the      *)
(* machine as it was when the panic was raised.                            *)
(***************************************************************************)
EXTENDS Integers, Sequences, FiniteSets, TLC

\* ------------------------------------------------------------ constants
MemSize == 4096
RomStart == 512
StackLimit == 16
FontStart == 80
FontEnd == 159
InstrPerTick == 11
NumPixels == 2048
NumRegs == 16

\* ------------------------------------------------------------ bounds
\* check_update_time answers true at most MaxCatchUp times in one update call
MaxCatchUp == 2
\* the longest ROM tried is MemSize - RomStart + RomOver bytes
RomOver == 2
\* depth of the nested-call ROM
MaxNest == 16

\* ------------------------------------------------------------ bit helpers
Bit(a, k) == (a \div (2 ^ k)) % 2

RECURSIVE BitwiseFrom(_, _, _, _)
BitwiseFrom(op, a, b, k) ==
    IF k > 7 THEN 0
    ELSE LET x == Bit(a, k)
             y == Bit(b, k)
             r == CASE op = "and" -> x * y
                    [] op = "or"  -> IF x + y > 0 THEN 1 ELSE 0
                    [] op = "xor" -> (x + y) % 2
         IN  r * (2 ^ k) + BitwiseFrom(op, a, b, k + 1)

And8(a, b) == BitwiseFrom("and", a, b, 0)
Or8(a, b)  == BitwiseFrom("or", a, b, 0)
Xor8(a, b) == BitwiseFrom("xor", a, b, 0)

\* u16 >> k and u16 & u16
Shr(a, k) == a \div (2 ^ k)

RECURSIVE And16(_, _)
And16(a, b) ==
    IF a = 0 \/ b = 0 THEN 0
    ELSE (a % 2) * (b % 2) + 2 * And16(a \div 2, b \div 2)

Ok(e) == [emu |-> e, res |-> "Ok"]
Err(e, kind) == [emu |-> e, res |-> kind]
Panic(e) == [emu |-> e, res |-> "Panic"]

\* ------------------------------------------------------------ Emu::new
fonts ==
    << 240, 144, 144, 144, 240,    \* 0
        32,  96,  32,  32, 112,    \* 1
       240,  16, 240, 128, 240,    \* 2
       240,  16, 240,  16, 240,    \* 3
       144, 144, 240,  16,  16,    \* 4
       240, 128, 240,  16, 240,    \* 5
       240, 128, 240, 144, 240,    \* 6
       240,  16,  32,  64,  64,    \* 7
       240, 144, 240, 144, 240,    \* 8
       240, 144, 240,  16, 240,    \* 9
       240, 144, 240, 144, 144,    \* A
       224, 144, 224, 144, 224,    \* B
       240, 128, 128, 128, 240,    \* C
       224, 144, 144, 144, 224,    \* D
       240, 128, 240, 128, 240,    \* E
       240, 128, 240, 128, 128 >>  \* F

\* for i in 0x050..0x09F (the end excluded): memory[i] = next font byte, if any
new ==
    [ pixels      |-> [p \in 0 .. NumPixels - 1 |-> FALSE],
      the_stack   |-> << >>,
      memory      |-> [a \in 0 .. MemSize - 1 |->
                         IF a >= FontStart /\ a < FontEnd /\ a - FontStart < Len(fonts)
                         THEN fonts[a - FontStart + 1] ELSE 0],
      pc          |-> RomStart,
      i           |-> 0,
      delay_timer |-> 0,
      sound_timer |-> 0,
      variables   |-> [r \in 0 .. NumRegs - 1 |-> 0],
      keys        |-> [k \in 0 .. NumRegs - 1 |-> FALSE] ]

\* ------------------------------------------------------------ Emu::read_rom
\* The loop stores rom byte k at RomStart + k while that address is below MemSize
\* and returns LoadingError at the first byte whose address is not.
\* mutant of read_rom: the loop gives up one address early (>= 4095)
read_rom_early(e, rom) ==
    LET cap == MemSize - 1 - RomStart
        written == IF Len(rom) < cap THEN Len(rom) ELSE cap
        mem == [a \in 0 .. MemSize - 1 |->
                  IF a >= RomStart /\ a - RomStart < written
                  THEN rom[a - RomStart + 1] ELSE e.memory[a]]
    IN  IF Len(rom) > written
        THEN Err([e EXCEPT !.memory = mem], "LoadingError")
        ELSE Ok([e EXCEPT !.memory = mem])

read_rom(e, rom) ==
    LET written == IF Len(rom) < MemSize - RomStart THEN Len(rom) ELSE MemSize - RomStart
        mem == [a \in 0 .. MemSize - 1 |->
                  IF a >= RomStart /\ a - RomStart < written
                  THEN rom[a - RomStart + 1] ELSE e.memory[a]]
    IN  IF Len(rom) > written
        THEN Err([e EXCEPT !.memory = mem], "LoadingError")
        ELSE Ok([e EXCEPT !.memory = mem])

\* ------------------------------------------------------------ stack, timers
stack_push(e, entry) ==
    LET e1 == [e EXCEPT !.the_stack = Append(e.the_stack, entry)]
    IN  IF Len(e1.the_stack) > StackLimit THEN Err(e1, "StackOverflow") ELSE Ok(e1)

\* mutant of stack_pop: the oldest entry is taken instead of the newest
stack_pop_oldest(e) ==
    IF Len(e.the_stack) > 0
    THEN [emu |-> [e EXCEPT !.the_stack = Tail(e.the_stack)],
          val |-> Head(e.the_stack)]
    ELSE [emu |-> e, val |-> 0]

\* yields the machine afterwards and the value popped
stack_pop(e) ==
    IF Len(e.the_stack) > 0
    THEN [emu |-> [e EXCEPT !.the_stack = SubSeq(e.the_stack, 1, Len(e.the_stack) - 1)],
          val |-> e.the_stack[Len(e.the_stack)]]
    ELSE [emu |-> e, val |-> 0]

decrement_delay_wrapping(e) == [e EXCEPT !.delay_timer = (e.delay_timer + 255) % 256]

decrement_delay(e) ==
    IF e.delay_timer > 0 THEN [e EXCEPT !.delay_timer = e.delay_timer - 1] ELSE e

decrement_sound(e) ==
    IF e.sound_timer > 0 THEN [e EXCEPT !.sound_timer = e.sound_timer - 1] ELSE e

\* ------------------------------------------------------------ fetch, decode
fetch_instruction_little_endian(e) ==
    IF e.pc + 1 >= MemSize
    THEN [emu |-> e, opcode |-> 0, panic |-> TRUE]
    ELSE [emu |-> [e EXCEPT !.pc = e.pc + 2],
          opcode |-> e.memory[e.pc] + e.memory[e.pc + 1] * 256,
          panic |-> FALSE]

\* yields the machine afterwards, the opcode and whether an index was out of range
fetch_instruction(e) ==
    IF e.pc >= MemSize
    THEN [emu |-> e, opcode |-> 0, panic |-> TRUE]
    ELSE IF e.pc + 1 >= MemSize
    THEN [emu |-> [e EXCEPT !.pc = e.pc + 1], opcode |-> 0, panic |-> TRUE]
    ELSE [emu |-> [e EXCEPT !.pc = e.pc + 2],
          opcode |-> e.memory[e.pc] * 256 + e.memory[e.pc + 1],
          panic |-> FALSE]

extract_from_opcode_unmasked(opcode) ==
    [ instr_type |-> Shr(opcode, 12),
      x   |-> Shr(opcode, 8),
      y   |-> Shr(opcode, 4),
      n   |-> And16(opcode, 15),
      nn  |-> And16(opcode, 255),
      nnn |-> And16(opcode, 4095) ]

\* opcode >> 12, (opcode >> 8) & 0b1111, (opcode >> 4) & 0b1111, opcode & 0b1111,
\* opcode & 0xFF, opcode & 0xFFF
extract_from_opcode(opcode) ==
    [ instr_type |-> Shr(opcode, 12),
      x   |-> And16(Shr(opcode, 8), 15),
      y   |-> And16(Shr(opcode, 4), 15),
      n   |-> And16(opcode, 15),
      nn  |-> And16(opcode, 255),
      nnn |-> And16(opcode, 4095) ]

\* ------------------------------------------------------------ instructions
SetReg(e, r, v) == [e EXCEPT !.variables[r] = v]

\* 00E0
clear_screen(e) == Ok([e EXCEPT !.pixels = [p \in 0 .. NumPixels - 1 |-> FALSE]])

\* 1NNN
jump(e, nnn) == Ok([e EXCEPT !.pc = nnn])

set_register_in_memory(e, x, nn) == Ok([e EXCEPT !.memory[x] = nn % 256])

\* 6XNN
set_register(e, x, nn) == Ok(SetReg(e, x, nn % 256))

\* mutant of add_val_to_register: the sum saturates at 255 instead of wrapping
add_val_to_register_saturating(e, x, nn) ==
    LET temp == e.variables[x] + nn
    IN  Ok(SetReg(e, x, IF temp > 255 THEN 255 ELSE temp))

\* 7XNN
add_val_to_register(e, x, nn) ==
    LET temp == e.variables[x] + nn
    IN  Ok(SetReg(e, x, IF temp > 255 THEN temp - 256 ELSE temp))

\* ANNN
set_index_register(e, nnn) == Ok([e EXCEPT !.i = nnn])

\* 2NNN: self.stack_push(self.pc)?; self.pc = nnn
call_subroutine(e, nnn) ==
    LET r == stack_push(e, e.pc)
    IN  IF r.res # "Ok" THEN r ELSE Ok([r.emu EXCEPT !.pc = nnn])

\* 00EE
return_from_subroutine_stay(e) ==
    LET r == stack_pop(e)
    IN  Ok(IF Len(e.the_stack) = 0 THEN e ELSE [r.emu EXCEPT !.pc = r.val])

return_from_subroutine(e) ==
    LET r == stack_pop(e)
    IN  Ok([r.emu EXCEPT !.pc = r.val])

Skip(e) == [e EXCEPT !.pc = e.pc + 2]

\* 3XNN
skip_if_vx_eq_nn(e, x, nn) == Ok(IF e.variables[x] = nn % 256 THEN Skip(e) ELSE e)

\* 4XNN
skip_if_vx_neq_nn(e, x, nn) == Ok(IF e.variables[x] # nn % 256 THEN Skip(e) ELSE e)

\* 5XY0
skip_if_vx_eq_vy(e, x, y) == Ok(IF e.variables[x] = e.variables[y] THEN Skip(e) ELSE e)

\* 9XY0
skip_if_vx_neq_vy(e, x, y) == Ok(IF e.variables[x] # e.variables[y] THEN Skip(e) ELSE e)

\* 8XY0
set_vx_to_vy(e, x, y) == Ok(SetReg(e, x, e.variables[y]))

\* 8XY1
vx_oreq_vy(e, x, y) == Ok(SetReg(e, x, Or8(e.variables[x], e.variables[y])))

\* 8XY2
vx_andeq_vy(e, x, y) == Ok(SetReg(e, x, And8(e.variables[x], e.variables[y])))

\* 8XY3
vx_xoreq_vy(e, x, y) == Ok(SetReg(e, x, Xor8(e.variables[x], e.variables[y])))

\* 8XY4: VF is cleared first, the operands are read after that, VX is stored last
vx_pluseq_vy(e, x, y) ==
    LET e1 == SetReg(e, 15, 0)
        result == e1.variables[x] + e1.variables[y]
        e2 == IF result >= 256 THEN SetReg(e1, 15, 1) ELSE e1
    IN  Ok(SetReg(e2, x, IF result >= 256 THEN result - 256 ELSE result))

\* 8XY5: VF is set first, the operands are read after that, VX is stored last
vx_minuseq_vy(e, x, y) ==
    LET e1 == SetReg(e, 15, 1)
        x_val == e1.variables[x] - e1.variables[y]
        e2 == IF x_val < 0 THEN SetReg(e1, 15, 0) ELSE e1
    IN  Ok(SetReg(e2, x, IF x_val < 0 THEN x_val + 256 ELSE x_val))

\* 8XY7
vx_equals_vy_minus_vx(e, x, y) ==
    LET e1 == SetReg(e, 15, 1)
        y_val == e1.variables[y] - e1.variables[x]
        e2 == IF y_val < 0 THEN SetReg(e1, 15, 0) ELSE e1
    IN  Ok(SetReg(e2, x, IF y_val < 0 THEN y_val + 256 ELSE y_val))

\* 8XYE: the flag is (to_shift & 0xf0) != 0
shift_left_1bit(e, x, y) ==
    LET to_shift == e.variables[x]
        e1 == SetReg(e, 15, IF And8(to_shift, 240) # 0 THEN 1 ELSE 0)
    IN  Ok(SetReg(e1, x, (to_shift * 2) % 256))

\* 8XY6
shift_right_1bit(e, x, y) ==
    LET to_shift == e.variables[x]
        e1 == SetReg(e, 15, IF And8(to_shift, 1) # 0 THEN 1 ELSE 0)
    IN  Ok(SetReg(e1, x, to_shift \div 2))

\* BNNN
jump_with_offset(e, nnn) == Ok([e EXCEPT !.pc = nnn + e.variables[0]])

\* CXNN: generated is the byte the random generator returns
random_gen(e, x, nn, generated) == Ok(SetReg(e, x, And8(generated, nn % 256)))

\* EX9E: self.keys[key_pos] panics when key_pos is no index of keys
skip_if_key(e, x) ==
    LET key_pos == e.variables[x]
    IN  IF key_pos >= NumRegs THEN Panic(e)
        ELSE Ok(IF e.keys[key_pos] THEN Skip(e) ELSE e)

\* EXA1
skip_if_not_key(e, x) ==
    LET key_pos == e.variables[x]
    IN  IF key_pos >= NumRegs THEN Panic(e)
        ELSE Ok(IF ~e.keys[key_pos] THEN Skip(e) ELSE e)

\* ------------------------------------------------------------ DXYN
RECURSIVE display_bits_or(_, _, _, _, _)
display_bits_or(e, x, y, sprite_byte, i) ==
    LET on == And8(sprite_byte, 128) # 0
        e1 == IF on THEN [e EXCEPT !.pixels[x + y * 64] = TRUE] ELSE e
    IN  IF x + 1 = 63 \/ i = 7
        THEN [emu |-> e1, x |-> x - i, y |-> y + 1]
        ELSE display_bits_or(e1, x + 1, y, (sprite_byte * 2) % 256, i + 1)

\* The inner loop "for i in 0..8" of display from bit i on: it yields the machine
\* and the x, y the outer loop goes on with.
RECURSIVE display_bits(_, _, _, _, _)
display_bits(e, x, y, sprite_byte, i) ==
    LET on == And8(sprite_byte, 128) # 0
        at == x + y * 64
        e1 == IF ~on THEN e
              ELSE IF e.pixels[at]
              THEN [e EXCEPT !.pixels[at] = FALSE, !.variables[15] = 1]
              ELSE [e EXCEPT !.pixels[at] = TRUE]
        x1 == x + 1
    IN  IF x1 = 63 \/ i = 7
        THEN [emu |-> e1, x |-> x1 - (i + 1), y |-> y + 1]
        ELSE display_bits(e1, x1, y, (sprite_byte * 2) % 256, i + 1)

\* The outer loop "for byte_index in 0..n" of display from byte_index on.
RECURSIVE display_rows(_, _, _, _, _)
display_rows(e, x, y, n, byte_index) ==
    IF byte_index >= n THEN Ok(e)
    ELSE IF e.i + byte_index >= MemSize THEN Panic(e)
    ELSE IF y = 31 THEN Ok(e)
    ELSE LET r == display_bits(e, x, y, e.memory[e.i + byte_index], 0)
         IN  display_rows(r.emu, r.x, r.y, n, byte_index + 1)

display_keeps_flag(e, x, y, n) ==
    display_rows(e, And8(e.variables[x], 63), And8(e.variables[y], 31), n, 0)

display(e, x, y, n) ==
    LET x0 == And8(e.variables[x], 63)
        y0 == And8(e.variables[y], 31)
    IN  display_rows(SetReg(e, 15, 0), x0, y0, n, 0)

\* The pixel indices the inner loop of display assigns, in order, from bit i on.
RECURSIVE display_toggles_bits(_, _, _, _)
display_toggles_bits(x, y, sprite_byte, i) ==
    LET here == IF And8(sprite_byte, 128) # 0 THEN << x + y * 64 >> ELSE << >>
    IN  IF x + 1 = 63 \/ i = 7 THEN here
        ELSE here \o display_toggles_bits(x + 1, y, (sprite_byte * 2) % 256, i + 1)

\* The pixel indices display assigns, in order, from sprite row byte_index on; the
\* inner loop always hands back the x it started with.
RECURSIVE display_toggles(_, _, _, _, _)
display_toggles(e, x, y, n, byte_index) ==
    IF byte_index >= n \/ e.i + byte_index >= MemSize \/ y = 31 THEN << >>
    ELSE display_toggles_bits(x, y, e.memory[e.i + byte_index], 0)
           \o display_toggles(e, x, y + 1, n, byte_index + 1)

\* ------------------------------------------------------------ dispatch
decode_and_execute(e, opcode, generated) ==
    LET d == extract_from_opcode(opcode)
    IN  CASE d.instr_type = 0 ->
               (CASE d.nnn = 224 -> clear_screen(e)
                  [] d.nnn = 238 -> return_from_subroutine(e)
                  [] d.nnn = 0   -> Err(e, "VacantMemory")
                  [] OTHER       -> Err(e, "UnknownInstruction"))
          [] d.instr_type = 1  -> jump(e, d.nnn)
          [] d.instr_type = 6  -> set_register(e, d.x, d.nn)
          [] d.instr_type = 7  -> add_val_to_register(e, d.x, d.nn)
          [] d.instr_type = 10 -> set_index_register(e, d.nnn)
          [] d.instr_type = 13 -> display(e, d.x, d.y, d.n)
          [] d.instr_type = 2  -> call_subroutine(e, d.nnn)
          [] d.instr_type = 3  -> skip_if_vx_eq_nn(e, d.x, d.nn)
          [] d.instr_type = 4  -> skip_if_vx_neq_nn(e, d.x, d.nn)
          [] d.instr_type = 5  -> skip_if_vx_eq_vy(e, d.x, d.y)
          [] d.instr_type = 9  -> skip_if_vx_neq_vy(e, d.x, d.y)
          [] d.instr_type = 8  ->
               (CASE d.n = 0  -> set_vx_to_vy(e, d.x, d.y)
                  [] d.n = 1  -> vx_oreq_vy(e, d.x, d.y)
                  [] d.n = 2  -> vx_andeq_vy(e, d.x, d.y)
                  [] d.n = 3  -> vx_xoreq_vy(e, d.x, d.y)
                  [] d.n = 4  -> vx_pluseq_vy(e, d.x, d.y)
                  [] d.n = 5  -> vx_minuseq_vy(e, d.x, d.y)
                  [] d.n = 7  -> vx_equals_vy_minus_vx(e, d.x, d.y)
                  [] d.n = 6  -> shift_right_1bit(e, d.x, d.y)
                  [] d.n = 14 -> shift_left_1bit(e, d.x, d.y)
                  [] OTHER    -> Err(e, "UnknownInstruction"))
          [] d.instr_type = 11 -> jump_with_offset(e, d.nnn)
          [] d.instr_type = 12 -> random_gen(e, d.x, d.nn, generated)
          [] d.instr_type = 14 ->
               (CASE d.nn = 158 -> skip_if_key(e, d.x)
                  [] d.nn = 161 -> skip_if_not_key(e, d.x)
                  [] OTHER      -> Err(e, "UnknownInstruction"))
          [] OTHER -> Ok(e)

\* yields the machine afterwards, the result and the opcode fetched
fetch_decode_execute_instr_vacant(e, generated) ==
    LET f == fetch_instruction(e)
    IN  IF f.panic THEN [emu |-> f.emu, res |-> "Panic", opcode |-> f.opcode]
        ELSE LET r == decode_and_execute(f.emu, f.opcode, generated)
             IN  [emu |-> r.emu, opcode |-> f.opcode,
                  res |-> IF r.res = "UnknownInstruction" THEN "VacantMemory" ELSE r.res]

fetch_decode_execute_instr(e, generated) ==
    LET f == fetch_instruction(e)
    IN  IF f.panic THEN [emu |-> f.emu, res |-> "Panic", opcode |-> f.opcode]
        ELSE LET r == decode_and_execute(f.emu, f.opcode, generated)
             IN  [emu |-> r.emu, res |-> r.res, opcode |-> f.opcode]

\* keypress, keyrelease
keypress(e, key_index) == [e EXCEPT !.keys[key_index] = TRUE]
keyrelease(e, key_index) == [e EXCEPT !.keys[key_index] = FALSE]

\* ------------------------------------------------------------ ROM images
\* the two bytes of an opcode, big-endian
W(op) == << op \div 256, op % 256 >>

RECURSIVE Words(_)
Words(ops) == IF ops = << >> THEN << >> ELSE W(Head(ops)) \o Words(Tail(ops))

RegSet == {0, 1, 15}
ByteSet == {0, 1, 200, 255}
AluOps == {4, 5}
UnknownOps == {61447, 65535, 20497, 36882, 32776, 57344, 291}
RandBytes == {0, 170, 255}

\* 6Xa 6Yb 8XYn
RomAlu(n, x, y, a, b) ==
    Words(<< 24576 + x * 256 + a, 24576 + y * 256 + b, 32768 + x * 256 + y * 16 + n >>)

\* 2200 at 0x200: a subroutine that calls itself
RomSelfCall == Words(<< 8704 >>)

\* subroutine k at 0x200 + 4k calls subroutine k + 1 and returns; the last one
\* only returns; the main routine (k = 0) ends in 1202, a jump to itself
RomCallChain(d) ==
    [ j \in 1 .. 4 * d + 2 |->
        LET w == (j - 1) \div 2
            op == IF w = 2 * d THEN 238
                  ELSE IF w % 2 = 0 THEN 8192 + RomStart + 4 * ((w \div 2) + 1)
                  ELSE IF w = 1 THEN 4096 + RomStart + 2
                  ELSE 238
        IN  W(op)[((j - 1) % 2) + 1] ]

\* d calls in a row: the call at 0x200 + 2j calls 0x200 + 2(j + 1), so a call
\* that fails falls through to the next call
RomCallLadder(d) ==
    [ j \in 1 .. 2 * d |-> W(8192 + RomStart + 2 * (((j - 1) \div 2) + 1))[((j - 1) % 2) + 1] ]

\* an opcode of no instruction, followed by 6A05
RomUnknown(op) == Words(<< op, 27141 >>)

\* A050 D005: draw the glyph of digit 0 at (0, 0)
RomFont == Words(<< 41040, 53253 >>)

\* C0FF E09E 1204 E0A1 1208: a random byte, then the key skips
RomKeys == Words(<< 49407, 57502, 4612, 57505, 4616 >>)

\* 61AA 6Xv 8X1n: a shift of VX, with another value in V1
ShiftOps == {6, 14}
ShiftVals == {1, 16, 127, 128, 255}
RomShift(n, x, v) ==
    Words(<< 24576 + 256 + 170, 24576 + x * 256 + v, 32768 + x * 256 + 16 + n >>)

\* 6Xv 7Xnn 7Xmm with mm = (256 - nn) mod 256
AddVals == {0, 200, 255}
AddNNs == {0, 1, 56, 255}
RomAdd(x, v, nn) ==
    Words(<< 24576 + x * 256 + v, 28672 + x * 256 + nn,
             28672 + x * 256 + ((256 - nn) % 256) >>)

\* 60vv E0nn: a key skip (nn = 9E or A1) on the key whose index is v
KeyVals == {0, 15, 16, 255}
RomKeyAt(v, nn) == Words(<< 24576 + v, 57344 + nn >>)

\* 60vx 61vy Aaddr D01n: draw n rows of the sprite at addr, at (vx, vy)
DrawCases ==
    { << 60, 0, 80, 5 >>, << 0, 28, 80, 5 >>, << 63, 0, 80, 5 >>, << 56, 30, 80, 2 >>,
      << 70, 40, 85, 5 >>, << 0, 31, 80, 1 >> }
RomDraw(c) == Words(<< 24576 + c[1], 24576 + 256 + c[2], 40960 + c[3], 53248 + 16 + c[4] >>)

\* A(0x050 + 5d) D005: draw the glyph of digit d at (0, 0)
RomFontDigit(d) == Words(<< 40960 + FontStart + 5 * d, 53253 >>)

\* A050 D005 A055 D005: glyph 0, then glyph 1 over it
RomDrawOver == Words(<< 41040, 53253, 41045, 53253 >>)

\* A050 D005 D005 D005: glyph 0 drawn, erased, drawn again
RomDrawTwice == Words(<< 41040, 53253, 53253, 53253 >>)

\* 00EE: a return with nothing on the call stack
RomReturn == Words(<< 238 >>)

\* 6005 6106 3005 1206 4005 9010 1200 5010 5000: skips taken and not taken
RomSkips ==
    Words(<< 24581, 24838, 12293, 4614, 16389, 36880, 4608, 20496, 20480 >>)

\* 1FFF: a jump to the last byte of memory; 60FF BFFF: a jump to 0xFFF + 0xFF;
\* AFFF D002: a sprite of two rows at the last byte of memory
RomJumpEnd == Words(<< 8191 >>)
RomJumpOffset == Words(<< 24831, 49151 >>)
RomDrawEnd == Words(<< 45055, 53250 >>)

\* a ROM that fills memory: 1FFE, zeros, and 6000 in the last two bytes
RomRunOff ==
    [ j \in 1 .. MemSize - RomStart |->
        IF j = 1 THEN 31 ELSE IF j = 2 THEN 254
        ELSE IF j = MemSize - RomStart - 1 THEN 96 ELSE 0 ]

\* 1200 (a jump to itself), then a byte pattern up to length len
RomBig(len) ==
    [ j \in 1 .. len |-> IF j = 1 THEN 18 ELSE IF j = 2 THEN 0 ELSE ((j * 7) % 255) + 1 ]

BigLens == (MemSize - RomStart - 1) .. (MemSize - RomStart + RomOver)

Roms ==
    { << >>, RomSelfCall, RomFont, RomKeys, RomCallChain(MaxNest),
      RomCallLadder(MaxNest + 2) }
    \cup { RomUnknown(op) : op \in UnknownOps }
    \cup { RomBig(len) : len \in BigLens }
    \cup { RomShift(n, x, v) : n \in ShiftOps, x \in RegSet, v \in ShiftVals }
    \cup { RomAlu(7, x, y, a, b) : x \in {0, 15}, y \in {1, 15}, a \in {1, 200}, b \in {1, 200} }
    \cup { RomAdd(x, v, nn) : x \in RegSet, v \in AddVals, nn \in AddNNs }
    \cup { RomKeyAt(v, nn) : v \in KeyVals, nn \in {158, 161} }
    \cup { RomDraw(c) : c \in DrawCases }
    \cup { RomFontDigit(d) : d \in 0 .. 15 }
    \cup { RomDrawOver, RomDrawTwice, RomReturn, RomSkips }
    \cup { RomJumpEnd, RomJumpOffset, RomDrawEnd, RomRunOff }
    \cup { RomAlu(n, x, y, a, b) : n \in AluOps, x \in RegSet, y \in RegSet,
                                   a \in ByteSet, b \in ByteSet }

\* ------------------------------------------------------------ host driver
VARIABLES
    rom,             \* main: the bytes read from the ROM file
    emulator,        \* MainState.emulator
    phase,           \* "constructed", "running", "load_failed", "panicked", "exited"
    loc,             \* where update stands: "idle" (not in it), "while", "for"
    iter,            \* the _i of update's for loop
    catchup,         \* ticks run so far in this update call
    quit_requested,  \* ctx.request_quit() was called
    result,          \* what read_rom or fetch_decode_execute_instr returned last
    opcode,          \* the opcode fetched last
    decoded,         \* what extract_from_opcode made of it
    calls,           \* addresses of the 2NNN that succeeded and are not yet returned from
    delay_decs,      \* calls of decrement_delay in the current tick
    sound_decs       \* calls of decrement_sound in the current tick

vars == << rom, emulator, phase, loc, iter, catchup, quit_requested, result, opcode,
           decoded, calls, delay_decs, sound_decs >>

ScanCodes == {1, 45, 57}

\* the scancode table of key_down_event and key_up_event; -1: no key of the pad
KeyOf(scancode) ==
    CASE scancode = 2  -> 1   [] scancode = 3  -> 2
      [] scancode = 4  -> 3   [] scancode = 5  -> 12
      [] scancode = 16 -> 4   [] scancode = 17 -> 5
      [] scancode = 18 -> 6   [] scancode = 19 -> 13
      [] scancode = 30 -> 7   [] scancode = 31 -> 8
      [] scancode = 32 -> 9   [] scancode = 33 -> 14
      [] scancode = 44 -> 10  [] scancode = 45 -> 0
      [] scancode = 46 -> 11  [] scancode = 47 -> 15
      [] OTHER -> -1

Init ==
    /\ rom \in Roms
    /\ emulator = new
    /\ phase = "constructed"
    /\ loc = "idle"
    /\ iter = 0
    /\ catchup = 0
    /\ quit_requested = FALSE
    /\ result = "none"
    /\ opcode = 0
    /\ decoded = extract_from_opcode(0)
    /\ calls = << >>
    /\ delay_decs = 0
    /\ sound_decs = 0

\* MainState::new: emulator.read_rom(rom)?; main's expect ends the process on Err
MainState_new ==
    /\ phase = "constructed"
    /\ LET r == read_rom(emulator, rom)
       IN  /\ emulator' = r.emu
           /\ result' = r.res
           /\ phase' = IF r.res = "Ok" THEN "running" ELSE "load_failed"
    /\ UNCHANGED << decoded, rom, loc, iter, catchup, quit_requested, opcode, calls,
                    delay_decs, sound_decs >>

\* the event loop calls update
update_enter ==
    /\ phase = "running" /\ loc = "idle" /\ ~quit_requested
    /\ loc' = "while"
    /\ catchup' = 0
    /\ UNCHANGED << decoded, rom, emulator, phase, iter, quit_requested, result, opcode, calls,
                    delay_decs, sound_decs >>

\* while ctx.time.check_update_time(DESIRED_FPS): true, a tick starts
update_tick ==
    /\ phase = "running" /\ loc = "while" /\ catchup < MaxCatchUp
    /\ loc' = "for"
    /\ iter' = 0
    /\ catchup' = catchup + 1
    /\ delay_decs' = 0
    /\ sound_decs' = 0
    /\ UNCHANGED << decoded, rom, emulator, phase, quit_requested, result, opcode, calls >>

\* check_update_time is false: update returns
update_return ==
    /\ phase = "running" /\ loc = "while"
    /\ loc' = "idle"
    /\ UNCHANGED << decoded, rom, emulator, phase, iter, catchup, quit_requested, result, opcode,
                    calls, delay_decs, sound_decs >>

\* the calls not yet returned from, after an instruction fetched at address at
CallsAfter(cs, at, op, res) ==
    IF res # "Ok" THEN cs
    ELSE IF op \div 4096 = 2 THEN Append(cs, at)
    ELSE IF op = 238 /\ cs # << >> THEN SubSeq(cs, 1, Len(cs) - 1)
    ELSE cs

\* one pass of the for loop: an instruction, then both timers
update_iter ==
    /\ phase = "running" /\ loc = "for"
    /\ \E generated \in RandBytes :
         LET r == fetch_decode_execute_instr(emulator, generated)
         IN  /\ result' = r.res
             /\ opcode' = r.opcode
             /\ decoded' = extract_from_opcode(r.opcode)
             /\ calls' = CallsAfter(calls, emulator.pc, r.opcode, r.res)
             /\ IF r.res = "Panic"
                THEN /\ emulator' = r.emu
                     /\ phase' = "panicked"
                     /\ UNCHANGED << loc, iter, quit_requested, delay_decs, sound_decs >>
                ELSE /\ emulator' = decrement_sound(decrement_delay(r.emu))
                     /\ quit_requested' = (quit_requested \/ r.res # "Ok")
                     /\ delay_decs' = delay_decs + 1
                     /\ sound_decs' = sound_decs + 1
                     /\ iter' = iter + 1
                     /\ loc' = IF iter + 1 >= InstrPerTick THEN "while" ELSE "for"
                     /\ UNCHANGED phase
    /\ UNCHANGED << rom, catchup >>

key_down_event ==
    /\ phase = "running" /\ loc = "idle" /\ ~quit_requested
    /\ \E scancode \in ScanCodes :
         /\ quit_requested' = (scancode = 1)
         /\ emulator' = IF KeyOf(scancode) >= 0 THEN keypress(emulator, KeyOf(scancode))
                        ELSE emulator
    /\ UNCHANGED << decoded, rom, phase, loc, iter, catchup, result, opcode, calls,
                    delay_decs, sound_decs >>

key_up_event ==
    /\ phase = "running" /\ loc = "idle" /\ ~quit_requested
    /\ \E scancode \in ScanCodes :
         emulator' = IF KeyOf(scancode) >= 0 THEN keyrelease(emulator, KeyOf(scancode))
                     ELSE emulator
    /\ UNCHANGED << decoded, rom, phase, loc, iter, catchup, quit_requested, result, opcode, calls,
                    delay_decs, sound_decs >>

\* event::run ends the loop once a quit was requested
run_quit ==
    /\ phase = "running" /\ loc = "idle" /\ quit_requested
    /\ phase' = "exited"
    /\ UNCHANGED << decoded, rom, emulator, loc, iter, catchup, quit_requested, result, opcode,
                    calls, delay_decs, sound_decs >>

Next ==
    \/ MainState_new
    \/ update_enter
    \/ update_tick
    \/ update_return
    \/ update_iter
    \/ key_down_event
    \/ key_up_event
    \/ run_quit

Spec == Init /\ [][Next]_vars

\* ------------------------------------------------------------ decoding alone
\* extract_from_opcode takes a u16
MaxOpcode == 65535

DecodeInit ==
    /\ opcode \in 0 .. MaxOpcode
    /\ decoded = extract_from_opcode(0)
    /\ rom = << >>
    /\ emulator = new
    /\ phase = "decoding"
    /\ loc = "idle"
    /\ iter = 0
    /\ catchup = 0
    /\ quit_requested = FALSE
    /\ result = "none"
    /\ calls = << >>
    /\ delay_decs = 0
    /\ sound_decs = 0

\* Self::extract_from_opcode(opcode), the first statement of decode_and_execute
decode ==
    /\ phase = "decoding"
    /\ decoded' = extract_from_opcode(opcode)
    /\ phase' = "decoded"
    /\ UNCHANGED << rom, emulator, loc, iter, catchup, quit_requested, result, opcode,
                    calls, delay_decs, sound_decs >>

DecodeNext == decode

SpecDecode == DecodeInit /\ [][DecodeNext]_vars

\* ------------------------------------------------------------ claims
\* the opcode at the program counter of machine e
OpAt(e) == e.memory[e.pc] * 256 + e.memory[e.pc + 1]

\* update is about to run fetch_decode_execute_instr, and the fetch is in range
AtInstr == phase = "running" /\ loc = "for" /\ emulator.pc + 1 < MemSize

IsError(res) == res \in {"StackOverflow", "LoadingError", "VacantMemory", "UnknownInstruction"}

\* the instruction table: 00E0, 00EE, 1NNN, 2NNN, 3XNN, 4XNN, 5XY0, 6XNN, 7XNN,
\* 8XY0-8XY7, 8XYE, 9XY0, ANNN, BNNN, CXNN, DXYN, EX9E, EXA1
InTable(op) ==
    LET f == op \div 4096
        n == op % 16
        nn == op % 256
    IN  \/ op \in {224, 238}
        \/ f \in {1, 2, 3, 4, 6, 7, 10, 11, 12, 13}
        \/ f \in {5, 9} /\ n = 0
        \/ f = 8 /\ n \in (0 .. 7) \cup {14}
        \/ f = 14 /\ nn \in {158, 161}

\* C1: in every reachable state the call stack holds at most 16 entries.
C1_StackAtMost16 == Len(emulator.the_stack) <= 16

\* C2: a read_rom that fails with LoadingError leaves every memory byte as it was
\* before the call.
C2_FailedLoadWritesNothing ==
    [][(phase = "constructed" /\ result' = "LoadingError")
         => emulator'.memory = emulator.memory]_vars

\* C3: loading an image of length L into a fresh machine: if L <= 3584 the load
\* succeeds, memory[0x200 + k] is image byte k for every k < L and every other
\* address is unchanged; if L >= 3585 the load returns LoadingError.
C3_LoadFillsFrom0x200 ==
    [][(phase = "constructed" /\ phase' # "constructed") =>
         LET L == Len(rom)
         IN  /\ L <= 3584 =>
                  /\ result' = "Ok"
                  /\ \A k \in 0 .. L - 1 : emulator'.memory[512 + k] = rom[k + 1]
                  /\ \A a \in 0 .. 4095 :
                       (a < 512 \/ a > 512 + L - 1) => emulator'.memory[a] = emulator.memory[a]
             /\ L >= 3585 => result' = "LoadingError"]_vars

\* C3 witness: a 3584-byte image has just been loaded and its last byte is at 4095
C3_Witness ==
    /\ phase = "running" /\ loc = "idle" /\ opcode = 0 /\ result = "Ok"
    /\ Len(rom) = 3584
    /\ emulator.memory[4095] = rom[3584]
    /\ rom[3584] # 0

\* C4: 2NNN returns StackOverflow exactly when the call stack already holds 16
\* entries before the push; with fewer than 16 entries it succeeds, pushes the
\* already-advanced program counter and sets the program counter to NNN.
C4_CallOverflowsAtSixteen ==
    [][(AtInstr /\ OpAt(emulator) \div 4096 = 2) =>
         LET depth == Len(emulator.the_stack)
         IN  /\ (result' = "StackOverflow") <=> (depth = 16)
             /\ depth < 16 =>
                  /\ result' = "Ok"
                  /\ emulator'.the_stack = Append(emulator.the_stack, emulator.pc + 2)
                  /\ emulator'.pc = OpAt(emulator) % 4096]_vars

\* C5: call and return are last-in-first-out: in a session of up to 16 nested
\* successful 2NNN calls (no error so far), each 00EE sets the program counter to
\* the address after the most recent 2NNN not yet returned from and removes
\* exactly that entry from the call stack.
C5_ReturnIsLifo ==
    [][(AtInstr /\ ~quit_requested /\ OpAt(emulator) = 238 /\ calls # << >>) =>
         LET depth == Len(emulator.the_stack)
         IN  /\ depth = Len(calls)
             /\ depth <= 16
             /\ result' = "Ok"
             /\ emulator'.pc = calls[Len(calls)] + 2
             /\ emulator.the_stack[depth] = calls[Len(calls)] + 2
             /\ emulator'.the_stack = SubSeq(emulator.the_stack, 1, depth - 1)]_vars

\* C5 witness: the innermost of 16 nested calls has just returned
C5_Witness ==
    /\ opcode = 238 /\ result = "Ok" /\ ~quit_requested
    /\ Len(calls) = 15
    /\ Len(emulator.the_stack) = 15
    /\ emulator.pc = calls[15] + 6

\* C6: every opcode other than 0x0000 that matches no pattern of the instruction
\* table is reported as UnknownInstruction.
C6_UnknownOpcodeIsReported ==
    [][(AtInstr /\ OpAt(emulator) # 0 /\ ~InTable(OpAt(emulator)))
         => result' = "UnknownInstruction"]_vars

\* C7: once fetch_decode_execute_instr has returned an error, no further
\* instruction runs on the machine and its state is not changed any more.
C7_FirstErrorIsFatal == [][IsError(result) => emulator' = emulator]_vars

\* C8: in each tick the delay timer and the sound timer are each decremented
\* exactly once, however many instructions the tick runs.
C8_TimersOncePerTick ==
    (phase = "running" /\ loc = "while" /\ catchup > 0)
        => (delay_decs = 1 /\ sound_decs = 1)

\* C9: after 8XY4, for all X and Y (0xF included), VF is 1 iff the sum of the
\* values VX and VY held when the instruction started exceeds 255, else 0; for
\* X # 0xF, VX holds that sum modulo 256.
C9_AddSetsCarry ==
    [][(AtInstr /\ OpAt(emulator) \div 4096 = 8 /\ OpAt(emulator) % 16 = 4) =>
         LET x == (OpAt(emulator) \div 256) % 16
             y == (OpAt(emulator) \div 16) % 16
             sum == emulator.variables[x] + emulator.variables[y]
         IN  /\ emulator'.variables[15] = (IF sum > 255 THEN 1 ELSE 0)
             /\ x # 15 => emulator'.variables[x] = sum % 256]_vars

\* C10: after 8XY5, for all X and Y (0xF included), VF is 0 iff VY exceeded VX
\* when the instruction started, else 1; for X # 0xF, VX holds (VX - VY) modulo
\* 256 of the values at the start.
C10_SubSetsNoBorrow ==
    [][(AtInstr /\ OpAt(emulator) \div 4096 = 8 /\ OpAt(emulator) % 16 = 5) =>
         LET x == (OpAt(emulator) \div 256) % 16
             y == (OpAt(emulator) \div 16) % 16
             vx == emulator.variables[x]
             vy == emulator.variables[y]
         IN  /\ emulator'.variables[15] = (IF vy > vx THEN 0 ELSE 1)
             /\ x # 15 => emulator'.variables[x] = (vx - vy) % 256]_vars

\* C11: for every value v of VX, 8XYE stores (2 * v) mod 256 in VX and sets VF to
\* bit 7 of v (1 iff v >= 128), without reading VY.
C11_ShiftLeftFlagIsBit7 ==
    [][(AtInstr /\ OpAt(emulator) \div 4096 = 8 /\ OpAt(emulator) % 16 = 14) =>
         LET x == (OpAt(emulator) \div 256) % 16
             v == emulator.variables[x]
         IN  /\ emulator'.variables[15] = (IF v >= 128 THEN 1 ELSE 0)
             /\ x # 15 => emulator'.variables[x] = (2 * v) % 256]_vars

\* the flag a flag-producing 8XYn is to leave in VF, from the values at its start
FlagOf(n, vx, vy) ==
    CASE n = 4  -> IF vx + vy > 255 THEN 1 ELSE 0
      [] n = 5  -> IF vy > vx THEN 0 ELSE 1
      [] n = 7  -> IF vx > vy THEN 0 ELSE 1
      [] n = 6  -> vx % 2
      [] n = 14 -> IF vx >= 128 THEN 1 ELSE 0

\* C12: in every flag-producing instruction (8XY4, 8XY5, 8XY7, 8XY6, 8XYE, DXYN)
\* VF is the last register assigned: the operands are read before VF is written
\* and no later write overwrites it, so VF holds the flag (0 or 1) afterwards,
\* also when X = 0xF or Y = 0xF.
C12_FlagAssignedLast ==
    [][(AtInstr /\ result' = "Ok") =>
         LET op == OpAt(emulator)
             x == (op \div 256) % 16
             y == (op \div 16) % 16
             n == op % 16
         IN  /\ (op \div 4096 = 8 /\ n \in {4, 5, 6, 7, 14}) =>
                  emulator'.variables[15]
                    = FlagOf(n, emulator.variables[x], emulator.variables[y])
             /\ op \div 4096 = 13 => emulator'.variables[15] \in {0, 1}]_vars

\* the opcode stored at address a of machine e
OpIn(e, a) == e.memory[a] * 256 + e.memory[a + 1]

\* the program is 6Xv 7Xnn 7Xmm with mm = (256 - nn) mod 256, and nothing else
IsAddRoundTrip(e) ==
    LET a == OpIn(e, 512)
        b == OpIn(e, 514)
        c == OpIn(e, 516)
    IN  /\ Len(rom) = 6
        /\ a \div 4096 = 6 /\ b \div 4096 = 7 /\ c \div 4096 = 7
        /\ (a \div 256) % 16 = (b \div 256) % 16
        /\ (a \div 256) % 16 = (c \div 256) % 16
        /\ c % 256 = (256 - (b % 256)) % 256

\* C13: each 7XNN stores (old VX + NN) mod 256 in VX and changes no other
\* register; with VX = v, 7XNN and then 7XMM with MM = (256 - NN) mod 256 leave
\* VX equal to v.
C13_AddRoundTrip ==
    [][(AtInstr /\ OpAt(emulator) \div 4096 = 7) =>
         LET op == OpAt(emulator)
             x == (op \div 256) % 16
         IN  /\ result' = "Ok"
             /\ emulator'.variables =
                  [emulator.variables EXCEPT ![x] = (emulator.variables[x] + (op % 256)) % 256]
             /\ (IsAddRoundTrip(emulator) /\ emulator.pc = 516) =>
                  emulator'.variables[x] = OpIn(emulator, 512) % 256]_vars

\* C13 witness: 6 1 C8, 7 1 38 (200 + 56 wraps to 0) and 7 1 C8 have run, V1 = 200
C13_Witness ==
    /\ IsAddRoundTrip(emulator)
    /\ rom = << 97, 200, 113, 56, 113, 200 >>
    /\ emulator.pc = 518 /\ opcode = 29128 /\ result = "Ok"
    /\ emulator.variables[1] = 200

\* C14: EX9E skips (pc advanced by 2 more) iff the value k of VX is a key index
\* (0..15) and key k is pressed; EXA1 iff k is a key index and key k is not
\* pressed; with k > 15 both return success without a skip, and nothing fails.
C14_KeySkipsCheckTheIndex ==
    [][(AtInstr /\ OpAt(emulator) \div 4096 = 14 /\ OpAt(emulator) % 256 \in {158, 161}) =>
         LET op == OpAt(emulator)
             k == emulator.variables[(op \div 256) % 16]
             pressed == IF k <= 15 THEN emulator.keys[k] ELSE FALSE
             skip == IF op % 256 = 158 THEN k <= 15 /\ pressed ELSE k <= 15 /\ ~pressed
         IN  /\ result' = "Ok"
             /\ emulator'.pc = emulator.pc + 2 + (IF skip THEN 2 ELSE 0)]_vars

\* bit b of a sprite byte, most-significant first
SpriteBit(byte, b) == (byte \div (2 ^ (7 - b))) % 2

\* the pixels of the grid that the sprite of DXYN opcode op covers with a 1 bit
SpritePixels(e, op) ==
    LET x0 == e.variables[(op \div 256) % 16] % 64
        y0 == e.variables[(op \div 16) % 16] % 32
        on == { rb \in (0 .. (op % 16) - 1) \X (0 .. 7) :
                  /\ x0 + rb[2] <= 63
                  /\ y0 + rb[1] <= 31
                  /\ SpriteBit(e.memory[e.i + rb[1]], rb[2]) = 1 }
    IN  { (x0 + rb[2]) + (y0 + rb[1]) * 64 : rb \in on }

IsDraw(e) == AtInstr /\ OpAt(e) \div 4096 = 13 /\ e.i + (OpAt(e) % 16) <= MemSize

\* C15: DXYN flips exactly the pixels (x0 + b, y0 + r) of the grid, column 63 and
\* row 31 included, for which bit b of memory[I + r] is 1, with x0 = VX mod 64 and
\* y0 = VY mod 32; every other pixel is unchanged.
C15_DrawTogglesInGridPixels ==
    [][IsDraw(emulator) =>
         /\ result' = "Ok"
         /\ emulator'.pixels =
              [p \in 0 .. NumPixels - 1 |->
                 IF p \in SpritePixels(emulator, OpAt(emulator))
                 THEN ~emulator.pixels[p] ELSE emulator.pixels[p]]]_vars

\* C16: after DXYN the flag register is 1 iff some pixel that was on before the
\* instruction is off after it, and 0 otherwise, whatever the flag was before.
C16_FlagIsCollision ==
    [][(IsDraw(emulator) /\ result' = "Ok") =>
         emulator'.variables[15] =
            (IF \E p \in 0 .. NumPixels - 1 : emulator.pixels[p] /\ ~emulator'.pixels[p]
             THEN 1 ELSE 0)]_vars

\* C16 witness: glyph 0 has been drawn and erased, which raised the flag, and drawn
\* again, which reset it.
C16_Witness ==
    /\ rom = RomDrawTwice
    /\ emulator.pc = 520 /\ opcode = 53253 /\ result = "Ok"
    /\ emulator.variables[15] = 0
    /\ emulator.pixels[0]

\* the framebuffer that shows glyph d at rows 0..4, columns 0..7 and nothing else
GlyphPixels(d) ==
    [p \in 0 .. NumPixels - 1 |->
       /\ p % 64 <= 7
       /\ p \div 64 <= 4
       /\ SpriteBit(fonts[5 * d + (p \div 64) + 1], p % 64) = 1]

\* C17: with a blank framebuffer, V0 = 0 and I at the glyph of digit d, D005 ends
\* with VF = 0 and the framebuffer showing the five bytes of glyph d of the font
\* table at rows 0..4, columns 0..7, all other pixels off.
C17_FontGlyphIsDrawn ==
    [][(AtInstr /\ OpAt(emulator) = 53253 /\ emulator.variables[0] = 0
          /\ emulator.pixels = [p \in 0 .. NumPixels - 1 |-> FALSE]) =>
         \A d \in 0 .. 15 :
            emulator.i = FontStart + 5 * d =>
               /\ result' = "Ok"
               /\ emulator'.variables[15] = 0
               /\ emulator'.pixels = GlyphPixels(d)]_vars

\* C18: a freshly constructed machine holds the 80 bytes of the font table from
\* 0x050 and 0 in every other memory byte; registers, timers and I are 0, the call
\* stack is empty, all pixels and keys are off, and pc is 0x200.
C18_FreshMachine ==
    phase = "constructed" =>
      /\ emulator.memory =
           [a \in 0 .. MemSize - 1 |->
              IF a >= FontStart /\ a < FontStart + Len(fonts)
              THEN fonts[a - FontStart + 1] ELSE 0]
      /\ emulator.variables = [r \in 0 .. NumRegs - 1 |-> 0]
      /\ emulator.delay_timer = 0 /\ emulator.sound_timer = 0 /\ emulator.i = 0
      /\ emulator.the_stack = << >>
      /\ emulator.pixels = [p \in 0 .. NumPixels - 1 |-> FALSE]
      /\ emulator.keys = [k \in 0 .. NumRegs - 1 |-> FALSE]
      /\ emulator.pc = RomStart

\* C19: an instruction returns VacantMemory iff the opcode fetched is 0x0000, and
\* then nothing but pc, advanced by 2, has changed.
C19_VacantMemoryIffZero ==
    [][AtInstr =>
         /\ (result' = "VacantMemory") <=> (OpAt(emulator) = 0)
         /\ OpAt(emulator) = 0 =>
              emulator' = [emulator EXCEPT !.pc = emulator.pc + 2]]_vars

\* C19 witness: the opcode 0x0000 after the end of a ROM has been executed and
\* only pc moved.
C19_Witness ==
    /\ rom = RomFont
    /\ opcode = 0 /\ result = "VacantMemory"
    /\ emulator.pc = 518 /\ emulator.i = FontStart /\ emulator.pixels[0]

\* C20: 00EE with an empty call stack returns success, sets pc to 0 and leaves
\* the call stack empty.
C20_ReturnOnEmptyStack ==
    [][(AtInstr /\ OpAt(emulator) = 238 /\ emulator.the_stack = << >>) =>
         /\ result' = "Ok"
         /\ emulator'.pc = 0
         /\ emulator'.the_stack = << >>]_vars

\* C20 witness: the ROM 00EE has returned to address 0 with nothing on the stack.
C20_Witness ==
    /\ rom = RomReturn
    /\ opcode = 238 /\ result = "Ok"
    /\ emulator.pc = 0 /\ emulator.the_stack = << >>

\* C21: DXYN never wraps while drawing: no pixel in a column left of the starting
\* column x0 and no pixel in a row outside y0 .. min(y0 + N - 1, 31) is modified.
C21_DrawNeverWraps ==
    [][(IsDraw(emulator) /\ result' = "Ok") =>
         LET op == OpAt(emulator)
             x0 == emulator.variables[(op \div 256) % 16] % 64
             y0 == emulator.variables[(op \div 16) % 16] % 32
             last == IF y0 + (op % 16) - 1 < 31 THEN y0 + (op % 16) - 1 ELSE 31
         IN  \A p \in 0 .. NumPixels - 1 :
                (p % 64 < x0 \/ p \div 64 < y0 \/ p \div 64 > last) =>
                   emulator'.pixels[p] = emulator.pixels[p]]_vars

\* the skip instruction op (3XNN, 4XNN, 5XY_, 9XY_, EX9E, EXA1) finds its condition true
SkipTaken(e, op) ==
    LET f == op \div 4096
        vx == e.variables[(op \div 256) % 16]
        vy == e.variables[(op \div 16) % 16]
        nn == op % 256
    IN  CASE f = 3 -> vx = nn
          [] f = 4 -> vx # nn
          [] f = 5 -> vx = vy
          [] f = 9 -> vx # vy
          [] f = 14 /\ nn = 158 -> IF vx <= 15 THEN e.keys[vx] ELSE FALSE
          [] f = 14 /\ nn = 161 -> IF vx <= 15 THEN ~e.keys[vx] ELSE FALSE
          [] OTHER -> FALSE

\* 1NNN, 2NNN, BNNN, 00EE
IsControlFlow(op) == op \div 4096 \in {1, 2, 11} \/ op = 238

\* C22: the opcode fetched is 256 * memory[pc] + memory[pc + 1], and pc is advanced
\* by 2 before decoding: an instruction that is no jump, call or return ends with
\* pc = old pc + 2, a taken skip with pc = old pc + 4.
C22_FetchIsBigEndianAndAdvances ==
    [][AtInstr =>
         /\ opcode' = 256 * emulator.memory[emulator.pc] + emulator.memory[emulator.pc + 1]
         /\ ~IsControlFlow(OpAt(emulator)) =>
              emulator'.pc = emulator.pc + (IF SkipTaken(emulator, OpAt(emulator)) THEN 4 ELSE 2)]_vars

\* C22 witness: 6000 E0A1 with key 0 up: the skip was taken, from 514 to 518.
C22_Witness ==
    /\ rom = RomKeyAt(0, 161)
    /\ opcode = 57505 /\ result = "Ok"
    /\ emulator.pc = 518

\* C23: for every 16-bit opcode the decoder yields family = opcode div 4096,
\* X = (opcode div 256) mod 16, Y = (opcode div 16) mod 16, N = opcode mod 16,
\* NN = opcode mod 256, NNN = opcode mod 4096; hence NN = 16 Y + N,
\* NNN = 256 X + NN and opcode = 4096 family + NNN.
C23_DecodeFields ==
    phase = "decoded" =>
      /\ decoded.instr_type = opcode \div 4096
      /\ decoded.x = (opcode \div 256) % 16
      /\ decoded.y = (opcode \div 16) % 16
      /\ decoded.n = opcode % 16
      /\ decoded.nn = opcode % 256
      /\ decoded.nnn = opcode % 4096
      /\ decoded.nn = 16 * decoded.y + decoded.n
      /\ decoded.nnn = 256 * decoded.x + decoded.nn
      /\ opcode = 4096 * decoded.instr_type + decoded.nnn

\* C23 witness: 0x1AC9 decoded into 1, A, C, 9, C9, AC9.
C23_Witness ==
    /\ phase = "decoded"
    /\ opcode = 6857
    /\ decoded = [instr_type |-> 1, x |-> 10, y |-> 12, n |-> 9, nn |-> 201, nnn |-> 2761]

\* C24: whenever an instruction is about to run, every memory access it makes is
\* in range: the fetch addresses pc and pc + 1, and for DXYN the sprite addresses
\* I .. I + N - 1, all lie in 0 .. 4095.
C24_MemoryAccessInRange ==
    (phase = "running" /\ loc = "for") =>
      /\ emulator.pc + 1 <= MemSize - 1
      /\ (emulator.pc + 1 <= MemSize - 1 /\ OpAt(emulator) \div 4096 = 13) =>
            emulator.i + (OpAt(emulator) % 16) - 1 <= MemSize - 1

\* C25: no instruction, timer decrement or key event writes memory: once the ROM
\* is loaded, all 4096 bytes are the same after every step as before it.
C25_MemoryIsNeverWritten ==
    [][phase = "running" => emulator'.memory = emulator.memory]_vars

\* C25 witness: after three draws of A050 D005 D005 D005, and the vacant opcodes
\* behind them, the font table and the program are still in memory.
C25_Witness ==
    /\ rom = RomDrawTwice /\ phase = "exited"
    /\ \A a \in 0 .. MemSize - 1 :
          emulator.memory[a] =
             IF a >= FontStart /\ a < FontEnd THEN fonts[a - FontStart + 1]
             ELSE IF a >= RomStart /\ a < RomStart + Len(rom) THEN rom[a - RomStart + 1]
             ELSE 0

C27_DrawTwiceRestores ==
    [][(IsDraw(emulator) /\ result' = "Ok") =>
         LET op == OpAt(emulator)
             x == (op \div 256) % 16
             y == (op \div 16) % 16
             n == op % 16
             toggles == display_toggles(emulator, emulator.variables[x] % 64,
                                        emulator.variables[y] % 32, n, 0)
             again == display(emulator', x, y, n)
         IN  /\ \A j, k \in 1 .. Len(toggles) : toggles[j] = toggles[k] => j = k
             /\ \A p \in 0 .. NumPixels - 1 :
                   (emulator'.pixels[p] # emulator.pixels[p])
                      <=> (\E j \in 1 .. Len(toggles) : toggles[j] = p)
             /\ (x # 15 /\ y # 15) =>
                   /\ again.res = "Ok"
                   /\ again.emu.pixels = emulator.pixels]_vars

\* C27 witness: A050 D005 D005: the second draw has put the framebuffer back to
\* blank, and the first had drawn glyph 0.
C27_Witness ==
    /\ rom = RomDrawTwice
    /\ emulator.pc = 518 /\ opcode = 53253 /\ result = "Ok"
    /\ emulator.pixels = [p \in 0 .. NumPixels - 1 |-> FALSE]
    /\ emulator.variables[15] = 1

====
